---- MODULE Spec2Model ----
(***************************************************************************)
(* State-machine model of spotify-autopause.py (class SpotifyAutopause).   *)
(*                                                                         *)
(* Strings that the program inspects character by character (process       *)
(* names, ignore-list entries, the text typed in the edit window, the      *)
(* output of osascript) are sequences of one-character strings, so that    *)
(* lower(), title(), strip(), split() and the substring test are computed  *)
(* as Python computes them.  The two fixed labels "Playing"/"Paused" and   *)
(* the action labels are only compared for equality and stay TLA+ strings. *)
(***************************************************************************)
EXTENDS Integers, Sequences, FiniteSets, TLC

\* ------------------------------------------------------------------ bounds

\* Number of timer firings explored (the clock that stamps the rows).
MaxCycles == 3
\* Number of timer firings explored on a quiet system (SpecQuiet).
MaxQuietCycles == 5
\* Number of "Save" clicks in the Edit Ignored Apps window explored.
MaxEdits == 1
MaxDispatchCycles == 4
MaxFilterCycles == 2
MaxLiveCycles == 2

\* ------------------------------------------------------- program constants

DELAY_WHEN_START == 2
DELAY_WHEN_PLAYING == 2
DELAY_WHEN_NOT_PLAYING == 3
\* deque(maxlen=8)
ROWS_MAXLEN == 8

SPOTIFY_PAUSE_SCRIPT == "pause"
SPOTIFY_PLAY_SCRIPT == "play"

\* self.always_ignore_apps = ["Spotify"]
always_ignore_apps == << <<"S","p","o","t","i","f","y">> >>

\* ------------------------------------------------------------ str methods

UpperToLower ==
  [A |-> "a", B |-> "b", C |-> "c", D |-> "d", E |-> "e", F |-> "f", G |-> "g", H |-> "h",
   I |-> "i", J |-> "j", K |-> "k", L |-> "l", M |-> "m", N |-> "n", O |-> "o", P |-> "p",
   Q |-> "q", R |-> "r", S |-> "s", T |-> "t", U |-> "u", V |-> "v", W |-> "w", X |-> "x",
   Y |-> "y", Z |-> "z"]
LowerToUpper ==
  [a |-> "A", b |-> "B", c |-> "C", d |-> "D", e |-> "E", f |-> "F", g |-> "G", h |-> "H",
   i |-> "I", j |-> "J", k |-> "K", l |-> "L", m |-> "M", n |-> "N", o |-> "O", p |-> "P",
   q |-> "Q", r |-> "R", s |-> "S", t |-> "T", u |-> "U", v |-> "V", w |-> "W", x |-> "X",
   y |-> "Y", z |-> "Z"]

IsUpper(c) == c \in DOMAIN UpperToLower
IsLower(c) == c \in DOMAIN LowerToUpper
IsCased(c) == IsUpper(c) \/ IsLower(c)
IsSpace(c) == c \in {" ", "\n", "\t"}

LowerChar(c) == IF IsUpper(c) THEN UpperToLower[c] ELSE c
UpperChar(c) == IF IsLower(c) THEN LowerToUpper[c] ELSE c

\* str.lower()
StrLower(s) == SubSeq([i \in 1..Len(s) |-> LowerChar(s[i])], 1, Len(s))

\* str.title(): a cased character is upper-cased when it starts a word (the
\* character before it is not cased) and lower-cased otherwise.
StrTitle(s) ==
  SubSeq([i \in 1..Len(s) |->
            IF i = 1 \/ ~IsCased(s[i - 1]) THEN UpperChar(s[i]) ELSE LowerChar(s[i])],
         1, Len(s))

\* str.strip(): drop leading and trailing whitespace.
StrStrip(s) ==
  LET keep == {i \in 1..Len(s) : ~IsSpace(s[i])}
  IN IF keep = {} THEN <<>>
     ELSE SubSeq(s, CHOOSE i \in keep : \A j \in keep : i <= j,
                    CHOOSE i \in keep : \A j \in keep : j <= i)

\* needle in hay (Python's substring operator; the empty string is in every string)
StrIn(needle, hay) ==
  \E i \in 0..(Len(hay) - Len(needle)) : SubSeq(hay, i + 1, i + Len(needle)) = needle

\* s.split(sep) for a one-character separator: the pieces between separators,
\* empty pieces included.
RECURSIVE StrSplit(_, _)
StrSplit(s, sep) ==
  LET hits == {i \in 1..Len(s) : s[i] = sep}
  IN IF hits = {} THEN <<s>>
     ELSE LET i == CHOOSE h \in hits : \A g \in hits : h <= g
          IN <<SubSeq(s, 1, i - 1)>> \o StrSplit(SubSeq(s, i + 1, Len(s)), sep)

\* sep.join(parts)
RECURSIVE StrJoin(_, _)
StrJoin(sep, parts) ==
  IF Len(parts) = 0 THEN <<>>
  ELSE IF Len(parts) = 1 THEN parts[1]
  ELSE parts[1] \o sep \o StrJoin(sep, Tail(parts))

\* An append that never evicts: a list in place of deque(maxlen=8).
DequeAppend_unbounded(q, x) == q \o <<x>>

\* deque(maxlen=8).append(x): a full deque discards its leftmost item.
DequeAppend(q, x) ==
  IF Len(q) >= ROWS_MAXLEN THEN Tail(q) \o <<x>> ELSE q \o <<x>>

\* ------------------------------------------------------------ environment

\* PIDs that may hold an audio-out assertion and what `ps -p pid -o comm=`
\* prints for each while the process is alive.
Pids == {1, 2, 3}
Comm(pid) ==
  CASE pid = 1 -> <<"/","A","p","p","s","/","S","p","o","t","i","f","y","\n">>
    [] pid = 2 -> <<"/","A","p","p","s","/","G","o","o","g","l","e"," ","C","h","r","o","m","e"," ","H","e","l","p","e","r","\n">>
    [] OTHER   -> <<"/","A","p","p","s","/","V","L","C","\n">>

\* One line of `pmset -g assertions` output, reduced to what get_audio_pids
\* tests on it: whether it contains "Resources: audio-out" and the number
\* matched by 'Created for PID: (\d+)' (0 when the pattern does not match).
PidLine(p) == [audio |-> FALSE, pid |-> p]
AudioLine == [audio |-> TRUE, pid |-> 0]
OtherLine == [audio |-> FALSE, pid |-> 0]

\* result.stdout.split('\n') of the outputs the model feeds to a cycle.
PmsetOutputs ==
  { <<OtherLine>>,                                        \* no assertion listed
    <<OtherLine, PidLine(1), AudioLine>>,                 \* the managed player only
    <<PidLine(1), AudioLine, PidLine(2), AudioLine>>,
    <<PidLine(2), AudioLine, PidLine(3), AudioLine>>,
    <<AudioLine, OtherLine, PidLine(3), OtherLine>> }     \* format changed: no PID line before the audio line

\* What subprocess.run(['pmset', ...]) does: it returns the output, or raises
\* OSError when the command cannot be executed.
PmsetRuns ==
  {[raised |-> FALSE, lines |-> o] : o \in PmsetOutputs}
    \cup {[raised |-> TRUE, lines |-> <<>>]}

\* What osascript prints for 'player state'.
PlayerStateResults ==
  { <<"p","l","a","y","i","n","g","\n">>, <<"p","a","u","s","e","d","\n">> }

\* Texts the user may leave in the Edit Ignored Apps window before "Save".
EditTexts ==
  { <<>>,
    <<"c","h","r","o","m","e">>,
    <<" ","V","L","C"," ",",",","," ","C","h","r","o","m","e">> }

\* --------------------------------------------------------- pure functions

\* new_apps = [app.strip() for app in response.text.split(',') if app.strip()]
ParseIgnoreText(text) ==
  LET parts == StrSplit(text, ",")
      stripped == [i \in 1..Len(parts) |-> StrStrip(parts[i])]
  IN SelectSeq(stripped, LAMBDA a : a # <<>>)

\* is_spotify_playing: False when Spotify is not running, else whether the
\* stripped osascript result is 'playing'.
is_spotify_playing(running, result) ==
  IF running THEN StrStrip(result) = <<"p","l","a","y","i","n","g">> ELSE FALSE

\* get_audio_pids: for every line i > 0 containing "Resources: audio-out",
\* the PID matched on the line before it, if it matches.
RECURSIVE AudioPidsFrom(_, _)
AudioPidsFrom(lines, i) ==
  IF i > Len(lines) THEN <<>>
  ELSE (IF lines[i].audio /\ i > 1 /\ lines[i - 1].pid # 0
          THEN <<lines[i - 1].pid>> ELSE <<>>)
       \o AudioPidsFrom(lines, i + 1)

get_audio_pids(run) ==
  IF run.raised THEN [raised |-> TRUE, pids |-> <<>>]
  ELSE [raised |-> FALSE, pids |-> AudioPidsFrom(run.lines, 1)]

\* list_audio_processes: ps runs with check=True, so the first PID whose
\* process has exited raises CalledProcessError out of the loop.
list_audio_processes(audio_pids, dead) ==
  IF \E i \in 1..Len(audio_pids) : audio_pids[i] \in dead
    THEN [raised |-> TRUE, processes |-> <<>>]
    ELSE [raised |-> FALSE,
          processes |-> [i \in 1..Len(audio_pids) |-> StrTitle(StrStrip(Comm(audio_pids[i])))]]

\* IsIgnored comparing the names as they are written.
IsIgnored_case_sensitive(process, ignored_apps) ==
  \E k \in 1..Len(ignored_apps) : StrIn(ignored_apps[k], process)

\* IsIgnored matching in both directions: an entry in the name, or the name
\* in an entry.
IsIgnored_either_direction(process, ignored_apps) ==
  \E k \in 1..Len(ignored_apps) :
     \/ StrIn(StrLower(ignored_apps[k]), StrLower(process))
     \/ StrIn(StrLower(process), StrLower(ignored_apps[k]))

\* the filter of is_audio_playing
IsIgnored(process, ignored_apps) ==
  \E k \in 1..Len(ignored_apps) : StrIn(StrLower(ignored_apps[k]), StrLower(process))

NonIgnoredAudio(all_audio_processes, ignored_apps) ==
  SelectSeq(all_audio_processes, LAMBDA process : ~IsIgnored(process, ignored_apps))

\* is_audio_playing filtering with the user's list alone.
is_audio_playing_user_list_only(run, dead, user_apps) ==
  LET p == get_audio_pids(run)
      l == list_audio_processes(p.pids, dead)
      non_ignored_audio == NonIgnoredAudio(l.processes, user_apps)
  IN IF p.raised \/ l.raised
       THEN [raised |-> TRUE, playing |-> FALSE, sources |-> <<>>]
       ELSE [raised |-> FALSE, playing |-> non_ignored_audio # <<>>, sources |-> non_ignored_audio]

\* is_audio_playing: (bool(non_ignored_audio), non_ignored_audio), or the
\* exception raised by one of the two calls it starts with.
is_audio_playing(run, dead, user_apps) ==
  LET p == get_audio_pids(run)
      l == list_audio_processes(p.pids, dead)
      non_ignored_audio == NonIgnoredAudio(l.processes, always_ignore_apps \o user_apps)
  IN IF p.raised \/ l.raised
       THEN [raised |-> TRUE, playing |-> FALSE, sources |-> <<>>]
       ELSE [raised |-> FALSE, playing |-> non_ignored_audio # <<>>, sources |-> non_ignored_audio]

\* source.split('/')[-1]
LastPathPart(source) == LET parts == StrSplit(source, "/") IN parts[Len(parts)]

\* other_audio_state of log_audio_status
OtherAudioState(other_audio_playing, sources) ==
  IF other_audio_playing
    THEN StrJoin(<<",", " ">>, [i \in 1..Len(sources) |-> LastPathPart(sources[i])])
    ELSE <<"N","o"," ","O","t","h","e","r"," ","A","u","d","i","o">>

\* ------------------------------------------------------------------ state

VARIABLES
  spotify_was_playing,        \* self.spotify_was_playing
  non_spotify_audio_playing,  \* self.non_spotify_audio_playing
  user_ignore_apps,           \* self.user_ignore_apps
  all_rows,                   \* self.all_rows, rows <<timestamp, spotify, other audio>>
  status_table,               \* self.status_table: the rows last rendered
  last_spotify_state,         \* self.last_spotify_state
  last_other_audio_state,     \* self.last_other_audio_state
  interval,                   \* self.check_audio_timer.interval
  now,                        \* the clock read by time.strftime: timer firings so far
  edits,                      \* "Save" clicks so far
  calls,                      \* control scripts handed to osascript by the last callback
  edge_playing,               \* history: spotify_playing on the latest Idle->Suppressing cycle
  unmatched,                  \* history: pause scripts run so far minus play scripts run so far
  last                        \* history: what the last callback was given and found

vars == <<spotify_was_playing, non_spotify_audio_playing, user_ignore_apps, all_rows,
          status_table, last_spotify_state, last_other_audio_state, interval, now,
          edits, calls, edge_playing, unmatched, last>>

\* The fields a check_audio cycle may assign, as one record threaded through
\* the handlers in program order.
Self ==
  [spotify_was_playing |-> spotify_was_playing,
   non_spotify_audio_playing |-> non_spotify_audio_playing,
   all_rows |-> all_rows,
   last_spotify_state |-> last_spotify_state,
   last_other_audio_state |-> last_other_audio_state,
   interval |-> interval,
   calls |-> <<>>]

\* ------------------------------------------------------------------ handlers

\* pause_spotify / play_spotify: osascript.run(script); its return value is dropped.
pause_spotify(self) == [self EXCEPT !.calls = @ \o <<SPOTIFY_PAUSE_SCRIPT>>]
play_spotify(self) == [self EXCEPT !.calls = @ \o <<SPOTIFY_PLAY_SCRIPT>>]

\* log_audio_status without the change test: a row on every call.
log_audio_status_every_tick(self, timestamp, spotify_status, other_audio_playing, sources, action) ==
  LET spotify_state == IF spotify_status THEN "Playing" ELSE "Paused"
      other_audio_state == OtherAudioState(other_audio_playing, sources)
      rows1 == DequeAppend(self.all_rows, <<timestamp, spotify_state, other_audio_state>>)
      rows2 == IF action # "" THEN DequeAppend(rows1, <<timestamp, action, <<>> >>) ELSE rows1
  IN [self EXCEPT !.all_rows = rows2,
                  !.last_spotify_state = spotify_state,
                  !.last_other_audio_state = other_audio_state]

\* log_audio_status that records the status row and leaves the action out.
log_audio_status_no_action_row(self, timestamp, spotify_status, other_audio_playing, sources, action) ==
  LET spotify_state == IF spotify_status THEN "Playing" ELSE "Paused"
      other_audio_state == OtherAudioState(other_audio_playing, sources)
      row == <<timestamp, spotify_state, other_audio_state>>
  IN IF spotify_state # self.last_spotify_state
        \/ other_audio_state # self.last_other_audio_state
        \/ action # ""
       THEN [self EXCEPT !.all_rows = DequeAppend(self.all_rows, row),
                         !.last_spotify_state = spotify_state,
                         !.last_other_audio_state = other_audio_state]
       ELSE self

log_audio_status(self, timestamp, spotify_status, other_audio_playing, sources, action) ==
  LET spotify_state == IF spotify_status THEN "Playing" ELSE "Paused"
      other_audio_state == OtherAudioState(other_audio_playing, sources)
      row == <<timestamp, spotify_state, other_audio_state>>
      rows1 == DequeAppend(self.all_rows, row)
      rows2 == IF action # "" THEN DequeAppend(rows1, <<timestamp, action, <<>> >>) ELSE rows1
  IN IF spotify_state # self.last_spotify_state
        \/ other_audio_state # self.last_other_audio_state
        \/ action # ""
       THEN [self EXCEPT !.all_rows = rows2,
                         !.last_spotify_state = spotify_state,
                         !.last_other_audio_state = other_audio_state]
       ELSE self

\* handle_audio_start that pauses without recording that it did.
handle_audio_start_forgets_flag(self, timestamp, spotify_playing, sources) ==
  LET s1 == [self EXCEPT !.non_spotify_audio_playing = TRUE]
  IN IF spotify_playing
       THEN LET s3 == pause_spotify(s1)
                s4 == log_audio_status(s3, timestamp, spotify_playing, TRUE, sources, "Pausing Spotify")
            IN [s4 EXCEPT !.interval = DELAY_WHEN_NOT_PLAYING]
       ELSE s1

\* handle_audio_start that enters Suppressing only when it pauses.
handle_audio_start_only_when_playing(self, timestamp, spotify_playing, sources) ==
  IF spotify_playing
    THEN LET s2 == [self EXCEPT !.non_spotify_audio_playing = TRUE, !.spotify_was_playing = TRUE]
             s3 == pause_spotify(s2)
             s4 == log_audio_status(s3, timestamp, spotify_playing, TRUE, sources, "Pausing Spotify")
         IN [s4 EXCEPT !.interval = DELAY_WHEN_NOT_PLAYING]
    ELSE self

\* handle_audio_start that sends the pause script whether or not the player
\* is playing, and sets the flag only if it was.
handle_audio_start_pauses_stopped_player(self, timestamp, spotify_playing, sources) ==
  LET s1 == [self EXCEPT !.non_spotify_audio_playing = TRUE]
      s2 == [s1 EXCEPT !.spotify_was_playing = spotify_playing]
      s3 == pause_spotify(s2)
      s4 == log_audio_status(s3, timestamp, spotify_playing, TRUE, sources, "Pausing Spotify")
  IN IF spotify_playing THEN [s4 EXCEPT !.interval = DELAY_WHEN_NOT_PLAYING] ELSE s4

\* handle_audio_start that takes the last logged player label for the
\* player's state: it does not pause a player last logged as "Paused".
handle_audio_start_trusts_log(self, timestamp, spotify_playing, sources) ==
  LET s1 == [self EXCEPT !.non_spotify_audio_playing = TRUE]
  IN IF spotify_playing /\ self.last_spotify_state # "Paused"
       THEN LET s2 == [s1 EXCEPT !.spotify_was_playing = TRUE]
                s3 == pause_spotify(s2)
                s4 == log_audio_status(s3, timestamp, spotify_playing, TRUE, sources, "Pausing Spotify")
            IN [s4 EXCEPT !.interval = DELAY_WHEN_NOT_PLAYING]
       ELSE s1

handle_audio_start(self, timestamp, spotify_playing, sources) ==
  LET s1 == [self EXCEPT !.non_spotify_audio_playing = TRUE]
  IN IF spotify_playing
       THEN LET s2 == [s1 EXCEPT !.spotify_was_playing = TRUE]
                s3 == pause_spotify(s2)
                s4 == log_audio_status(s3, timestamp, spotify_playing, TRUE, sources, "Pausing Spotify")
            IN [s4 EXCEPT !.interval = DELAY_WHEN_NOT_PLAYING]
       ELSE s1

\* handle_audio_stop that resumes without looking at spotify_was_playing.
handle_audio_stop_always_plays(self, timestamp, spotify_playing) ==
  LET s1 == [self EXCEPT !.non_spotify_audio_playing = FALSE]
      s2 == play_spotify(s1)
      s3 == log_audio_status(s2, timestamp, spotify_playing, FALSE, <<>>, "Resuming Spotify")
      s4 == [s3 EXCEPT !.spotify_was_playing = FALSE]
  IN [s4 EXCEPT !.interval = DELAY_WHEN_PLAYING]

\* handle_audio_stop that resumes and leaves spotify_was_playing set.
handle_audio_stop_keeps_flag(self, timestamp, spotify_playing) ==
  LET s1 == [self EXCEPT !.non_spotify_audio_playing = FALSE]
  IN IF s1.spotify_was_playing
       THEN LET s2 == play_spotify(s1)
                s3 == log_audio_status(s2, timestamp, spotify_playing, FALSE, <<>>, "Resuming Spotify")
            IN [s3 EXCEPT !.interval = DELAY_WHEN_PLAYING]
       ELSE s1

\* handle_audio_stop that resumes and leaves the timer interval as it was.
handle_audio_stop_keeps_interval(self, timestamp, spotify_playing) ==
  LET s1 == [self EXCEPT !.non_spotify_audio_playing = FALSE]
  IN IF s1.spotify_was_playing
       THEN LET s2 == play_spotify(s1)
                s3 == log_audio_status(s2, timestamp, spotify_playing, FALSE, <<>>, "Resuming Spotify")
            IN [s3 EXCEPT !.spotify_was_playing = FALSE]
       ELSE s1

handle_audio_stop(self, timestamp, spotify_playing) ==
  LET s1 == [self EXCEPT !.non_spotify_audio_playing = FALSE]
  IN IF s1.spotify_was_playing
       THEN LET s2 == play_spotify(s1)
                s3 == log_audio_status(s2, timestamp, spotify_playing, FALSE, <<>>, "Resuming Spotify")
                s4 == [s3 EXCEPT !.spotify_was_playing = FALSE]
            IN [s4 EXCEPT !.interval = DELAY_WHEN_PLAYING]
       ELSE s1

\* check_audio_step acting on the level instead of the edge: it pauses on
\* every cycle that finds other audio and the player playing.
check_audio_step_level_triggered(self, timestamp, spotify_playing, other_audio_playing, sources) ==
  IF other_audio_playing /\ (~self.non_spotify_audio_playing \/ spotify_playing)
    THEN handle_audio_start(self, timestamp, spotify_playing, sources)
  ELSE IF ~other_audio_playing /\ self.non_spotify_audio_playing
    THEN handle_audio_stop(self, timestamp, spotify_playing)
  ELSE log_audio_status(self, timestamp, spotify_playing, other_audio_playing, sources, "")

\* check_audio_step that takes a player still playing during Suppressing, with
\* the flag set, for a pause that did not arrive and pauses again.
check_audio_step_retries_pause(self, timestamp, spotify_playing, other_audio_playing, sources) ==
  IF other_audio_playing /\ ~self.non_spotify_audio_playing
    THEN handle_audio_start(self, timestamp, spotify_playing, sources)
  ELSE IF other_audio_playing /\ self.spotify_was_playing /\ spotify_playing
    THEN pause_spotify(log_audio_status(self, timestamp, spotify_playing,
                                        other_audio_playing, sources, "Pausing Spotify"))
  ELSE IF ~other_audio_playing /\ self.non_spotify_audio_playing
    THEN handle_audio_stop(self, timestamp, spotify_playing)
  ELSE log_audio_status(self, timestamp, spotify_playing, other_audio_playing, sources, "")

\* check_audio_step without the elif: it never leaves Suppressing.
check_audio_step_never_stops(self, timestamp, spotify_playing, other_audio_playing, sources) ==
  IF other_audio_playing /\ ~self.non_spotify_audio_playing
    THEN handle_audio_start(self, timestamp, spotify_playing, sources)
  ELSE log_audio_status(self, timestamp, spotify_playing, other_audio_playing, sources, "")

\* The if / elif / else of check_audio.
check_audio_step(self, timestamp, spotify_playing, other_audio_playing, sources) ==
  IF other_audio_playing /\ ~self.non_spotify_audio_playing
    THEN handle_audio_start(self, timestamp, spotify_playing, sources)
  ELSE IF ~other_audio_playing /\ self.non_spotify_audio_playing
    THEN handle_audio_stop(self, timestamp, spotify_playing)
  ELSE log_audio_status(self, timestamp, spotify_playing, other_audio_playing, sources, "")

\* ------------------------------------------------------------------- actions

\* load_ignore_apps: the list a previous run saved, or [] without a file.
LoadableIgnoreLists == {ParseIgnoreText(t) : t \in EditTexts}

Init ==
  /\ spotify_was_playing = FALSE
  /\ non_spotify_audio_playing = FALSE
  /\ user_ignore_apps \in LoadableIgnoreLists
  /\ all_rows = <<>>
  /\ status_table = <<>>
  /\ last_spotify_state = ""
  /\ last_other_audio_state = <<>>
  /\ interval = DELAY_WHEN_START
  /\ now = 0
  /\ edits = 0
  /\ calls = <<>>
  /\ edge_playing = FALSE
  /\ unmatched = 0
  /\ last = [op |-> "init", raised |-> "no", running |-> FALSE, spotify_playing |-> FALSE,
             pids |-> <<>>, dead |-> {}, unread |-> FALSE,
             playing |-> FALSE, sources |-> <<>>, code |-> 0, code_before |-> 0,
             was_suppressing |-> FALSE, was_flag |-> FALSE, edits |-> 0]

PidsOf(run) == LET p == get_audio_pids(run).pids IN {p[i] : i \in 1..Len(p)}

\* An audio-out line whose PID get_audio_pids could not read.
Unread(run) ==
  \E i \in 1..Len(run.lines) :
     run.lines[i].audio /\ (i = 1 \/ run.lines[i - 1].pid = 0)

\* How many of the scripts in a list are the given one.
CountOf(script, scripts) == Cardinality({i \in 1..Len(scripts) : scripts[i] = script})

\* One firing of the timer: check_audio with the answers the OS gives it.
\* An exception leaves check_audio before any field is assigned; rumps logs it
\* and the timer fires again.  codes are the exit codes osascript may return
\* for a pause or play script (0: dispatched); pause_spotify and play_spotify
\* drop the code, so it reaches the history only.
check_audio_with(running, result, run, dead, codes) ==
  \E timestamp \in {now + 1},
     spotify_playing \in {is_spotify_playing(running, result)},
     audio \in {is_audio_playing(run, dead, user_ignore_apps)} :
  \E s \in {IF audio.raised THEN Self
            ELSE check_audio_step(Self, timestamp, spotify_playing, audio.playing, audio.sources)} :
  \E code \in IF s.calls = <<>> THEN {0} ELSE codes :
     /\ spotify_was_playing' = s.spotify_was_playing
     /\ non_spotify_audio_playing' = s.non_spotify_audio_playing
     /\ all_rows' = s.all_rows
     /\ last_spotify_state' = s.last_spotify_state
     /\ last_other_audio_state' = s.last_other_audio_state
     /\ interval' = s.interval
     /\ calls' = s.calls
     /\ status_table' = IF audio.raised THEN status_table ELSE s.all_rows
     /\ now' = timestamp
     /\ edge_playing' = IF ~audio.raised /\ audio.playing /\ ~non_spotify_audio_playing
                          THEN spotify_playing ELSE edge_playing
     /\ unmatched' = unmatched + CountOf(SPOTIFY_PAUSE_SCRIPT, s.calls)
                                - CountOf(SPOTIFY_PLAY_SCRIPT, s.calls)
     /\ last' = [op |-> "check",
                 raised |-> IF run.raised THEN "pmset" ELSE IF audio.raised THEN "ps" ELSE "no",
                 running |-> running,
                 spotify_playing |-> spotify_playing,
                 pids |-> get_audio_pids(run).pids, dead |-> dead, unread |-> Unread(run),
                 playing |-> audio.playing, sources |-> audio.sources, code |-> code,
                 code_before |-> last.code,
                 was_suppressing |-> non_spotify_audio_playing,
                 was_flag |-> spotify_was_playing,
                 edits |-> edits]
     /\ UNCHANGED <<user_ignore_apps, edits>>

\* The processes that may have exited between pmset and ps: none, or one of
\* those pmset listed.
DeadSets(run) == {{}} \cup {{p} : p \in PidsOf(run)}

\* The answers the OS may give one cycle: whether Spotify is running, what
\* osascript prints for its player state, what pmset prints, which of the
\* listed processes are gone when ps looks for them.
Answers ==
  UNION { UNION { { [running |-> running, result |-> result, run |-> run, dead |-> dead] :
                      result \in IF running THEN PlayerStateResults ELSE {<<>>},
                      dead \in DeadSets(run) } :
                  run \in PmsetRuns } :
          running \in BOOLEAN }

\* The answers of a quiet system: Spotify stays open, every query succeeds,
\* and the only other process that makes sound is the browser.
QuietOutputs ==
  { <<OtherLine>>, <<PidLine(1), AudioLine, PidLine(2), AudioLine>> }

QuietAnswers ==
  { a \in Answers : a.running /\ ~a.run.raised /\ a.run.lines \in QuietOutputs /\ a.dead = {} }

\* Exit codes of osascript for a control script: dispatched, or not.
Dispatched == {0}
DispatchCodes == {0, 1}

check_audio ==
  /\ now < MaxCycles
  /\ \E a \in Answers : check_audio_with(a.running, a.result, a.run, a.dead, Dispatched)

check_audio_quiet ==
  /\ now < MaxQuietCycles
  /\ \E a \in QuietAnswers : check_audio_with(a.running, a.result, a.run, a.dead, Dispatched)

\* Cycles on which every query succeeds and osascript may fail to dispatch
\* the pause or play script.
check_audio_dispatch ==
  /\ now < MaxDispatchCycles
  /\ \E a \in QuietAnswers : check_audio_with(a.running, a.result, a.run, a.dead, DispatchCodes)

\* edit_ignore_apps that, on Save, also starts the state machine over in Idle.
edit_ignore_apps_resets_state ==
  /\ edits < MaxEdits
  /\ \E clicked \in BOOLEAN, text \in EditTexts :
       /\ user_ignore_apps' = IF clicked THEN ParseIgnoreText(text) ELSE user_ignore_apps
       /\ edits' = IF clicked THEN edits + 1 ELSE edits
       /\ non_spotify_audio_playing' = IF clicked THEN FALSE ELSE non_spotify_audio_playing
       /\ spotify_was_playing' = IF clicked THEN FALSE ELSE spotify_was_playing
       /\ UNCHANGED <<all_rows, status_table,
                      last_spotify_state, last_other_audio_state, interval, now, calls,
                      edge_playing, unmatched, last>>

\* The Edit Ignored Apps window: "Save" replaces the user list (and writes it
\* to the JSON file, which this run never reads again), "Cancel" changes
\* nothing.
edit_ignore_apps ==
  /\ edits < MaxEdits
  /\ \E clicked \in BOOLEAN, text \in EditTexts :
       /\ user_ignore_apps' = IF clicked THEN ParseIgnoreText(text) ELSE user_ignore_apps
       /\ edits' = IF clicked THEN edits + 1 ELSE edits
       /\ UNCHANGED <<spotify_was_playing, non_spotify_audio_playing, all_rows, status_table,
                      last_spotify_state, last_other_audio_state, interval, now, calls,
                      edge_playing, unmatched, last>>

Next == check_audio \/ edit_ignore_apps

Spec == Init /\ [][Next]_vars

\* The same program on a quiet system, followed for more cycles.
NextQuiet == check_audio_quiet \/ edit_ignore_apps

SpecQuiet == Init /\ [][NextQuiet]_vars

\* is_audio_playing on its own: the ignore file holds one of the lists below,
\* among them an entry longer than a source's name, and pmset lists a PID
\* twice, or the sources in another order.
FilterTexts ==
  EditTexts \cup { <<"v","l","c">>,
                   <<"/","a","p","p","s","/","v","l","c"," ","m","e","d","i","a">> }

FilterOutputs ==
  { <<OtherLine>>,
    <<PidLine(3), AudioLine, PidLine(3), AudioLine>>,
    <<PidLine(3), AudioLine, PidLine(2), AudioLine>>,
    <<PidLine(2), AudioLine, PidLine(1), AudioLine, PidLine(3), AudioLine>> }

FilterAnswers ==
  { [running |-> TRUE, result |-> result, run |-> [raised |-> FALSE, lines |-> o], dead |-> {}] :
      result \in PlayerStateResults, o \in FilterOutputs }

InitFilter ==
  /\ spotify_was_playing = FALSE
  /\ non_spotify_audio_playing = FALSE
  /\ user_ignore_apps \in {ParseIgnoreText(t) : t \in FilterTexts}
  /\ all_rows = <<>>
  /\ status_table = <<>>
  /\ last_spotify_state = ""
  /\ last_other_audio_state = <<>>
  /\ interval = DELAY_WHEN_START
  /\ now = 0
  /\ edits = 0
  /\ calls = <<>>
  /\ edge_playing = FALSE
  /\ unmatched = 0
  /\ last = [op |-> "init", raised |-> "no", running |-> FALSE, spotify_playing |-> FALSE,
             pids |-> <<>>, dead |-> {}, unread |-> FALSE,
             playing |-> FALSE, sources |-> <<>>, code |-> 0, code_before |-> 0,
             was_suppressing |-> FALSE, was_flag |-> FALSE, edits |-> 0]

check_audio_filter ==
  /\ now < MaxFilterCycles
  /\ \E a \in FilterAnswers : check_audio_with(a.running, a.result, a.run, a.dead, Dispatched)

NextFilter == check_audio_filter

SpecFilter == InitFilter /\ [][NextFilter]_vars

\* The timer that keeps firing.  Its first MaxLiveCycles cycles get any of
\* the answers below, failed queries and failed dispatches among them; a
\* cycle that completes and observes no non-ignored audio can always follow
\* them.
LiveAnswers ==
  { a \in Answers : /\ a.running
                    /\ a.run.raised \/ a.run.lines \in {<<OtherLine>>,
                                                        <<PidLine(2), AudioLine, PidLine(3), AudioLine>>}
                    /\ a.dead \subseteq {3} }

check_audio_live ==
  /\ now < MaxLiveCycles
  /\ \E a \in LiveAnswers : check_audio_with(a.running, a.result, a.run, a.dead, DispatchCodes)

check_audio_silent ==
  /\ now < MaxLiveCycles + 1
  /\ \E a \in LiveAnswers :
       /\ \E audio \in {is_audio_playing(a.run, a.dead, user_ignore_apps)} :
            ~audio.raised /\ ~audio.playing
       /\ check_audio_with(a.running, a.result, a.run, a.dead, DispatchCodes)

NextLive == check_audio_live \/ check_audio_silent \/ edit_ignore_apps

SpecLive == Init /\ [][NextLive]_vars /\ WF_vars(check_audio_silent)

\* The program where the control scripts may fail to be dispatched.
NextDispatch == check_audio_dispatch \/ edit_ignore_apps

SpecDispatch == Init /\ [][NextDispatch]_vars

\* ========================================================== properties

\* The last callback was a check_audio that ran to its end.
CycleDone == last.op = "check" /\ last.raised = "no"
\* ... and on it the observed other-audio presence did / did not differ from
\* non_spotify_audio_playing.
StartEdge == CycleDone /\ last.playing /\ ~last.was_suppressing
StopEdge == CycleDone /\ ~last.playing /\ last.was_suppressing
NoEdge == CycleDone /\ last.playing = last.was_suppressing
\* No "Save" since the last cycle: it filtered with the list now in force.
Fresh == last.edits = edits

Issued(script) == Cardinality({i \in 1..Len(calls) : calls[i] = script})
HasActionRow(action) == \E i \in 1..Len(all_rows) : all_rows[i][2] = action

\* Case-insensitive containment, stated letter by letter: entry occurs in name
\* at some offset, each letter matching up to case.
SameLetter(a, b) ==
  \/ a = b
  \/ IsUpper(a) /\ UpperToLower[a] = b
  \/ IsUpper(b) /\ UpperToLower[b] = a
ContainsCI(name, entry) ==
  \E o \in 0..(Len(name) - Len(entry)) :
     \A k \in 1..Len(entry) : SameLetter(name[o + k], entry[k])
Listed(name, sources) == \E i \in 1..Len(sources) : sources[i] = name

\* The names list_audio_processes resolved on the last cycle.
EnumeratedNames == list_audio_processes(last.pids, {}).processes

\* C1 (conservative resume): a cycle issues the play command only if it is a
\* Suppressing->Idle cycle and the player was observed playing on the cycle
\* that made the latest Idle->Suppressing transition.
C1_ConservativeResume ==
  (last.op = "check" /\ Issued(SPOTIFY_PLAY_SCRIPT) > 0) => (StopEdge /\ edge_playing)

C1_Witness ==
  StopEdge /\ edge_playing /\ Issued(SPOTIFY_PLAY_SCRIPT) = 1

\* C2 (pause/resume round trip): an Idle->Suppressing cycle that finds the
\* player playing ends Suppressing with the flag set and exactly one pause;
\* the next cycle that observes no other audio ends Idle with the flag
\* cleared and exactly one play.
C2_RoundTrip ==
  /\ (StartEdge /\ last.spotify_playing) =>
       /\ non_spotify_audio_playing
       /\ spotify_was_playing
       /\ calls = <<SPOTIFY_PAUSE_SCRIPT>>
  /\ (StopEdge /\ edge_playing) =>
       /\ ~non_spotify_audio_playing
       /\ ~spotify_was_playing
       /\ calls = <<SPOTIFY_PLAY_SCRIPT>>

C2_Witness ==
  /\ StopEdge /\ edge_playing /\ ~spotify_was_playing
  /\ HasActionRow("Pausing Spotify") /\ HasActionRow("Resuming Spotify")

\* C3 (Idle->Suppressing with a stopped player): the cycle issues no pause,
\* ends Suppressing with the flag still false, and the Suppressing->Idle
\* cycle that follows is taken and issues no play.
C3_StoppedPlayerEdge ==
  /\ (StartEdge /\ ~last.spotify_playing) =>
       /\ calls = <<>>
       /\ non_spotify_audio_playing
       /\ ~spotify_was_playing
  /\ (StopEdge /\ ~edge_playing) =>
       /\ calls = <<>>
       /\ ~non_spotify_audio_playing
       /\ ~spotify_was_playing

C3_Witness ==
  StopEdge /\ ~edge_playing /\ ~last.was_flag /\ calls = <<>> /\ ~non_spotify_audio_playing

\* C4 (no-edge cycles): a cycle whose observed other-audio presence equals
\* non_spotify_audio_playing issues no command and leaves both flags as they
\* were, whatever the player's play state.
C4_NoEdgeNoCommand ==
  NoEdge =>
    /\ calls = <<>>
    /\ non_spotify_audio_playing = last.was_suppressing
    /\ spotify_was_playing = last.was_flag

\* The player was started by the user during Suppressing and is not paused again.
C4_Witness ==
  /\ NoEdge /\ last.was_suppressing /\ last.spotify_playing
  /\ calls = <<>> /\ non_spotify_audio_playing

SpotifyLabel(spotify_status) == IF spotify_status THEN "Playing" ELSE "Paused"
NoOtherAudio == <<"N","o"," ","O","t","h","e","r"," ","A","u","d","i","o">>

\* A step that is a completed cycle observing no other audio, taken right
\* after a completed cycle that observed none either.
SecondSilentCycle ==
  /\ last.op = "check" /\ last.raised = "no" /\ ~last.playing
  /\ now' = now + 1 /\ last'.raised = "no" /\ ~last'.playing

\* C5 as claimed (idempotent no-op logging): the second of two consecutive
\* cycles that observe no other audio appends a row only if the player's
\* label differs from the last logged player label.
C5_Original ==
  [][(SecondSilentCycle /\ all_rows' # all_rows)
       => SpotifyLabel(last'.spotify_playing) # last_spotify_state]_vars

\* C5 as amended: the second of two consecutive cycles that observe no other
\* audio appends a row only if the player's label differs from the last logged
\* player label or the last logged other-audio label is not "No Other Audio".
C5_NoOpLogging ==
  [][(SecondSilentCycle /\ all_rows' # all_rows)
       => \/ SpotifyLabel(last'.spotify_playing) # last_spotify_state
          \/ last_other_audio_state # NoOtherAudio]_vars

\* The second silent cycle has just logged the end of the other audio next to
\* an unchanged player label (every cycle of SpecQuiet runs to its end, so
\* Idle before this cycle means the cycle before it observed none).
C5_Witness ==
  /\ CycleDone /\ ~last.playing /\ ~last.was_suppressing /\ now >= 2
  /\ Len(all_rows) >= 2
  /\ all_rows[Len(all_rows)][1] = now
  /\ all_rows[Len(all_rows) - 1][1] < now
  /\ all_rows[Len(all_rows) - 1][2] = all_rows[Len(all_rows)][2]
  /\ all_rows[Len(all_rows)][3] = NoOtherAudio

\* C6 (ignore correctness): a source whose name contains an ignore-list entry,
\* case-insensitively, is not among the names is_audio_playing returns, and a
\* cycle all of whose sources are such does not leave Idle.
C6_IgnoreCorrectness ==
  (CycleDone /\ Fresh) =>
    LET ignored == always_ignore_apps \o user_ignore_apps
        names == EnumeratedNames
        Hit(name) == \E k \in 1..Len(ignored) : ContainsCI(name, ignored[k])
    IN /\ \A i \in 1..Len(names) : Hit(names[i]) => ~Listed(names[i], last.sources)
       /\ ((\A i \in 1..Len(names) : Hit(names[i])) /\ ~last.was_suppressing)
            => ~non_spotify_audio_playing

\* Entry "chrome", source "Google Chrome Helper".
C6_Witness ==
  /\ CycleDone /\ Fresh
  /\ user_ignore_apps = << <<"c","h","r","o","m","e">> >>
  /\ last.pids = <<1, 2>>
  /\ last.sources = <<>>
  /\ ~last.was_suppressing /\ ~non_spotify_audio_playing

\* C7 (always-ignore): whatever the user's list, a source whose name contains
\* "Spotify", case-insensitively, is not counted, and a cycle whose only
\* sources are such neither leaves Idle nor issues a command.
C7_AlwaysIgnore ==
  CycleDone =>
    LET names == EnumeratedNames
        IsPlayer(name) == ContainsCI(name, <<"S","p","o","t","i","f","y">>)
    IN /\ \A i \in 1..Len(names) : IsPlayer(names[i]) => ~Listed(names[i], last.sources)
       /\ (names # <<>> /\ (\A i \in 1..Len(names) : IsPlayer(names[i])) /\ ~last.was_suppressing)
            => (~non_spotify_audio_playing /\ calls = <<>>)

\* The user has saved an empty list; Spotify is the only source and is playing.
C7_Witness ==
  /\ CycleDone /\ Fresh /\ edits > 0
  /\ user_ignore_apps = <<>>
  /\ last.pids = <<1>> /\ last.spotify_playing
  /\ ~non_spotify_audio_playing /\ calls = <<>>

\* C8 (not-running guard): no command is handed to osascript on a cycle that
\* found Spotify not running.
C8_NotRunningGuard ==
  (last.op = "check" /\ calls # <<>>) => last.running

\* C9 (soft name-resolution failure): when a listed process has exited, the
\* cycle still runs to its end on the sources that remain.
C9_SoftNameFailure ==
  (last.op = "check" /\ last.dead # {}) =>
    LET live == SelectSeq(last.pids, LAMBDA pid : pid \notin last.dead)
        rest == NonIgnoredAudio(list_audio_processes(live, {}).processes,
                                always_ignore_apps \o user_ignore_apps)
    IN /\ last.raised = "no"
       /\ Fresh => (last.sources = rest /\ non_spotify_audio_playing = (rest # <<>>))

\* C10 (soft enumeration failure): when pmset cannot be run or no PID can be
\* read from its output, the cycle runs to its end with zero sources.
C10_SoftEnumerationFailure ==
  (last.op = "check" /\ (last.raised = "pmset" \/ (last.unread /\ last.pids = <<>>))) =>
    /\ last.raised = "no"
    /\ ~last.playing
    /\ ~non_spotify_audio_playing

\* C11 (a failed dispatch commits and is not retried): a cycle whose pause
\* script osascript did not dispatch still ends Suppressing with the flag
\* set, one whose play script was not dispatched still ends Idle with the
\* flag cleared, and a no-edge cycle issues no command, the one right after
\* a failed dispatch included: commands are issued on edge cycles only.
C11_FailedDispatchCommits ==
  /\ (CycleDone /\ last.code # 0 /\ calls = <<SPOTIFY_PAUSE_SCRIPT>>) =>
       (StartEdge /\ non_spotify_audio_playing /\ spotify_was_playing)
  /\ (CycleDone /\ last.code # 0 /\ calls = <<SPOTIFY_PLAY_SCRIPT>>) =>
       (StopEdge /\ ~non_spotify_audio_playing /\ ~spotify_was_playing)
  /\ (last.op = "check" /\ last.code_before # 0 /\ ~(StartEdge \/ StopEdge)) => calls = <<>>
  /\ (last.op = "check" /\ calls # <<>>) => (StartEdge \/ StopEdge)

\* The pause was not dispatched, the next cycle finds the player still
\* playing beside the other audio, and it issues nothing.
C11_Witness ==
  /\ NoEdge /\ last.code_before # 0 /\ last.was_flag /\ last.spotify_playing
  /\ calls = <<>> /\ non_spotify_audio_playing /\ spotify_was_playing
  /\ unmatched = 1

\* The rows a step appended: those stamped with the time of its cycle.
Appended ==
  LET n == Cardinality({i \in 1..Len(all_rows') : all_rows'[i][1] = now'})
  IN SubSeq(all_rows', Len(all_rows') - n + 1, Len(all_rows'))

\* C12 (ring bound): all_rows never holds more than 8 rows, and after every
\* cycle it is the last 8 (or fewer) rows of the old buffer followed by the
\* rows the cycle appended, in append order: the oldest rows are the ones
\* removed, also when the cycle appends two rows.
C12_RingBound ==
  [][now' # now =>
       LET joined == all_rows \o Appended
           keep == IF Len(joined) < ROWS_MAXLEN THEN Len(joined) ELSE ROWS_MAXLEN
       IN /\ Len(all_rows') <= ROWS_MAXLEN
          /\ all_rows' = SubSeq(joined, Len(joined) - keep + 1, Len(joined))]_vars

\* A cycle appended a status row and an action row to a full buffer, and the
\* rows of the first cycle are gone.
C12_Witness ==
  /\ Len(all_rows) = ROWS_MAXLEN
  /\ all_rows[1][1] > 1
  /\ all_rows[ROWS_MAXLEN - 1][1] = now /\ all_rows[ROWS_MAXLEN][1] = now
  /\ calls # <<>>

\* C13 (flag invariant): after every callback spotify_was_playing implies
\* non_spotify_audio_playing; a cycle turns the flag on only if it is an
\* Idle->Suppressing cycle, and turns it off only if it is the
\* Suppressing->Idle cycle that issues the play script; any other callback
\* leaves the flag as it was.
C13_FlagInvariant ==
  /\ spotify_was_playing => non_spotify_audio_playing
  /\ (last.op = "check" /\ spotify_was_playing /\ ~last.was_flag) => StartEdge
  /\ (last.op = "check" /\ ~spotify_was_playing /\ last.was_flag) =>
       (StopEdge /\ calls = <<SPOTIFY_PLAY_SCRIPT>>)
  /\ (last.op = "check" /\ ~(StartEdge \/ StopEdge)) => spotify_was_playing = last.was_flag

\* The flag went on at a start edge, and a later stop edge turned it off.
C13_Witness ==
  /\ StopEdge /\ last.was_flag /\ ~spotify_was_playing /\ ~non_spotify_audio_playing
  /\ calls = <<SPOTIFY_PLAY_SCRIPT>> /\ unmatched = 0

\* C14 (poll interval): the timer interval is DELAY_WHEN_NOT_PLAYING only
\* while the flag set by a pausing Idle->Suppressing cycle is up; after every
\* Suppressing->Idle cycle it is DELAY_WHEN_PLAYING, and so it is in every
\* Idle state after a callback.
C14_PollInterval ==
  /\ interval \in {DELAY_WHEN_PLAYING, DELAY_WHEN_NOT_PLAYING}
  /\ interval = DELAY_WHEN_NOT_PLAYING =>
       (non_spotify_audio_playing /\ spotify_was_playing /\ edge_playing)
  /\ (StartEdge /\ last.spotify_playing) => interval = DELAY_WHEN_NOT_PLAYING
  /\ StopEdge => interval = DELAY_WHEN_PLAYING
  /\ ~non_spotify_audio_playing => interval = DELAY_WHEN_PLAYING

\* The interval was raised by a pausing cycle and is back to normal in Idle.
C14_Witness ==
  /\ StopEdge /\ last.was_flag /\ edge_playing /\ ~non_spotify_audio_playing
  /\ interval = DELAY_WHEN_PLAYING
  /\ \E i \in 1..Len(all_rows) : all_rows[i][2] = "Pausing Spotify" /\ all_rows[i][1] < now

\* What a cycle decides: the scripts it runs and the fields the next
\* decision reads.
Decision(self) ==
  <<self.calls, self.non_spotify_audio_playing, self.spotify_was_playing, self.interval>>

\* Other contents the status recorder could hold: nothing, a short log, a
\* full buffer.
OtherRecorders ==
  {[all_rows |-> <<>>, last_spotify_state |-> "", last_other_audio_state |-> <<>>],
   [all_rows |-> << <<0, "Paused", NoOtherAudio>> >>,
    last_spotify_state |-> "Paused", last_other_audio_state |-> NoOtherAudio],
   [all_rows |-> [i \in 1..ROWS_MAXLEN |-> <<0, "Playing", <<"V","l","c">> >>],
    last_spotify_state |-> "Playing", last_other_audio_state |-> <<"V","l","c">>]}

WithRecorder(self, r) ==
  [self EXCEPT !.all_rows = r.all_rows,
               !.last_spotify_state = r.last_spotify_state,
               !.last_other_audio_state = r.last_other_audio_state]

\* The non-ignored sources a cycle may observe.
ObservedSources == {<<>>, << <<"V","l","c">> >>}

\* C15 (the status recorder does not influence decisions), as the one-step
\* condition that gives the claim for whole runs by induction: from any
\* reachable state, and from the same state with any other recorder
\* contents, a cycle fed the same observation runs the same scripts and ends
\* with the same non_spotify_audio_playing, spotify_was_playing and
\* interval.  (An edit touches none of these.)
C15_RecorderNoninterference ==
  \A r \in OtherRecorders, spotify_playing \in BOOLEAN, sources \in ObservedSources :
     Decision(check_audio_step(Self, now + 1, spotify_playing, sources # <<>>, sources))
       = Decision(check_audio_step(WithRecorder(Self, r), now + 1, spotify_playing,
                                   sources # <<>>, sources))

\* Two recorders that differ, both before a cycle that resumes: the two
\* cycles log differently and decide alike.
C15_Witness ==
  /\ spotify_was_playing /\ Len(all_rows) >= 2
  /\ \E r \in OtherRecorders :
       \E a \in {check_audio_step(Self, now + 1, FALSE, FALSE, <<>>)},
          b \in {check_audio_step(WithRecorder(Self, r), now + 1, FALSE, FALSE, <<>>)} :
          /\ a.calls = <<SPOTIFY_PLAY_SCRIPT>> /\ b.calls = <<SPOTIFY_PLAY_SCRIPT>>
          /\ a.all_rows # b.all_rows
          /\ a.last_spotify_state = b.last_spotify_state

StatusLabels == {"Playing", "Paused"}
ActionLabels == {"Pausing Spotify", "Resuming Spotify"}

\* C16 (change/edge logging rule): a cycle appends at most two rows; the
\* first is a status row, appended only if its player label or its
\* other-audio label differs from the labels last recorded or an action row
\* follows it; an action row is appended exactly on the cycles that run a
\* script, right after the status row of the same cycle, and reads
\* "Pausing Spotify" for the pause script and "Resuming Spotify" for the
\* play script.
C16_LoggingRule ==
  [][now' # now =>
       LET n == Len(Appended)
       IN /\ n <= 2
          /\ n >= 1 =>
               /\ Appended[1][2] \in StatusLabels
               /\ \/ Appended[1][2] # last_spotify_state
                  \/ Appended[1][3] # last_other_audio_state
                  \/ n = 2
          /\ n = 2 => (Appended[2][2] \in ActionLabels /\ calls' # <<>>)
          /\ calls' = <<SPOTIFY_PAUSE_SCRIPT>> =>
               (n = 2 /\ Appended[2] = <<now', "Pausing Spotify", <<>> >>)
          /\ calls' = <<SPOTIFY_PLAY_SCRIPT>> =>
               (n = 2 /\ Appended[2] = <<now', "Resuming Spotify", <<>> >>)]_vars

\* A resuming cycle left a status row and, right after it, the action row.
C16_Witness ==
  /\ calls = <<SPOTIFY_PLAY_SCRIPT>> /\ Len(all_rows) >= 4
  /\ all_rows[Len(all_rows) - 1] = <<now, "Paused", NoOtherAudio>>
  /\ all_rows[Len(all_rows)] = <<now, "Resuming Spotify", <<>> >>

\* Whether a name contains, case-insensitively, an entry of the always-ignore
\* list or of the given user list.
HitBy(name, user_apps) ==
  LET ignored == always_ignore_apps \o user_apps
  IN \E k \in 1..Len(ignored) : ContainsCI(name, ignored[k])

\* C17 (ignore-list edits between cycles): a Save replaces the user ignore
\* list by the parsed text and leaves non_spotify_audio_playing,
\* spotify_was_playing, the interval and the status buffer as they were;
\* and a cycle filters with the list in force when it runs: a cycle in
\* Suppressing that finds every enumerated source ignored by that list takes
\* the Suppressing->Idle edge and runs the play script iff
\* spotify_was_playing was set.
C17_EditFrame ==
  /\ [][edits' # edits =>
          /\ user_ignore_apps' \in {ParseIgnoreText(t) : t \in EditTexts}
          /\ UNCHANGED <<non_spotify_audio_playing, spotify_was_playing, interval, all_rows>>]_vars
  /\ []((CycleDone /\ Fresh /\ last.was_suppressing
          /\ \A i \in 1..Len(EnumeratedNames) : HitBy(EnumeratedNames[i], user_ignore_apps))
         => /\ StopEdge
            /\ ~non_spotify_audio_playing /\ ~spotify_was_playing
            /\ (calls = <<SPOTIFY_PLAY_SCRIPT>>) = last.was_flag
            /\ calls # <<>> => calls = <<SPOTIFY_PLAY_SCRIPT>>)

\* VLC was the audible source of the cycle before and still holds its audio
\* assertion, beside the ignored Chrome; a Save in between put "vlc" on the
\* list, and this cycle resumes.
C17_Witness ==
  /\ StopEdge /\ Fresh /\ edits > 0 /\ last.was_flag
  /\ last.pids = <<2, 3>> /\ last.sources = <<>>
  /\ \E i \in 1..Len(all_rows) :
       /\ all_rows[i][1] = now - 1
       /\ all_rows[i][3] = OtherAudioState(TRUE, <<EnumeratedNames[2]>>)
  /\ calls = <<SPOTIFY_PLAY_SCRIPT>> /\ ~non_spotify_audio_playing

\* C18 (filter result): the names is_audio_playing returns are exactly the
\* enumerated names that contain, case-insensitively, no entry of the
\* always-ignore list or the user's list, in enumeration order and with
\* repeated names kept; the boolean is true iff that list is non-empty; and
\* a name that is itself contained in an entry, without containing one, is
\* returned.
C18_FilterResult ==
  (CycleDone /\ Fresh) =>
    LET names == EnumeratedNames
        InsideEntry(name) ==
          \E k \in 1..Len(user_ignore_apps) : ContainsCI(user_ignore_apps[k], name)
    IN /\ last.sources = SelectSeq(names, LAMBDA name : ~HitBy(name, user_ignore_apps))
       /\ last.playing = (last.sources # <<>>)
       /\ \A i \in 1..Len(names) :
            (InsideEntry(names[i]) /\ ~HitBy(names[i], user_ignore_apps))
              => Listed(names[i], last.sources)

\* The entry "/apps/vlc media" contains VLC's name and does not ignore it;
\* VLC holds two assertions and is returned twice.
C18_Witness ==
  /\ CycleDone /\ Fresh
  /\ user_ignore_apps = << <<"/","a","p","p","s","/","v","l","c"," ","m","e","d","i","a">> >>
  /\ last.pids = <<3, 3>>
  /\ last.sources = <<EnumeratedNames[1], EnumeratedNames[1]>>
  /\ last.playing

\* C19 (eventual resume): when spotify_was_playing is set and, after the
\* cycles that may observe audio or fail, the timer keeps firing cycles that
\* observe no non-ignored audio, a cycle eventually runs the play script and
\* ends Idle with the flag cleared and the interval DELAY_WHEN_PLAYING.
C19_EventualResume ==
  spotify_was_playing ~>
    (/\ StopEdge /\ calls = <<SPOTIFY_PLAY_SCRIPT>>
     /\ ~non_spotify_audio_playing /\ ~spotify_was_playing
     /\ interval = DELAY_WHEN_PLAYING)

\* The pause was issued two cycles ago, the cycle in between logged nothing
\* (it raised, or it found no edge), and the last cycle resumes.
C19_Witness ==
  /\ StopEdge /\ calls = <<SPOTIFY_PLAY_SCRIPT>> /\ ~spotify_was_playing
  /\ interval = DELAY_WHEN_PLAYING
  /\ HasActionRow("Pausing Spotify")
  /\ \A i \in 1..Len(all_rows) : all_rows[i][1] # now - 1
  /\ now = MaxLiveCycles + 1

\* C20 (pause and resume alternate, pause first): after every callback the
\* number of pause scripts run so far minus the number of play scripts run
\* so far is 1 if spotify_was_playing is set and 0 if it is not, and a cycle
\* runs at most one script: a pause script only with no pause unmatched, a
\* play script only with one.
C20_Alternation ==
  /\ unmatched = (IF spotify_was_playing THEN 1 ELSE 0)
  /\ Len(calls) <= 1
  /\ (last.op = "check" /\ calls = <<SPOTIFY_PAUSE_SCRIPT>>) => (~last.was_flag /\ unmatched = 1)
  /\ (last.op = "check" /\ calls = <<SPOTIFY_PLAY_SCRIPT>>) => (last.was_flag /\ unmatched = 0)

\* Pause, resume, and the second pause.
C20_Witness ==
  /\ calls = <<SPOTIFY_PAUSE_SCRIPT>> /\ spotify_was_playing /\ unmatched = 1
  /\ HasActionRow("Resuming Spotify")
  /\ all_rows[Len(all_rows)][2] = "Pausing Spotify"

====
